---- MODULE Spec2Model ----
(***************************************************************************)
(* A model of firmware_diff.py: walk, calc_md5, get_file_hashes, differ    *)
(* and main, over a small file system holding the two trees.               *)
(*                                                                         *)
(* A path is a sequence of one-character names, each name its code point.  *)
(* A Python str is the sequence of its code points.                        *)
(***************************************************************************)
EXTENDS Integers, Sequences, FiniteSets, TLC

VARIABLES
    fs,           \* the file system: absolute path -> node
    chunk_size,   \* the size calc_md5 passes to f.read
    pc,           \* where main is
    stack,        \* the frames of walk, innermost last
    dir_files,    \* <<dir_a_files, dir_b_files>> of main
    file_hashes,  \* the dict of get_file_hashes
    idx,          \* position of get_file_hashes' for loops
    hfile,        \* calc_md5: the open file and the hash, or Closed
    stdout,       \* what has been printed in this run
    second_run,   \* whether this is the second run over the same trees
    prev_stdout,  \* what the first run printed
    prev_dir_files, \* history: the lists the first run's walks returned
    walked,       \* history: the real directories walk was called on
    hashed,       \* history: the files calc_md5 returned a digest for
    fed           \* history: the chunks fed to the hash of the open file

vars == <<fs, chunk_size, pc, stack, dir_files, file_hashes, idx, hfile,
          stdout, second_run, prev_stdout, prev_dir_files, walked, hashed, fed>>

----------------------------------------------------------------------------
(* Bounds of the model *)

\* directory entries in the two trees together
MaxEntries == 3
\* depth of an entry below its root
MaxDepth == 2
\* symbolic links the kernel follows in one path resolution before ELOOP
SymloopMax == 2
\* length of a file's content in the hashing specification
MaxLen == 3
\* largest chunk size tried in the hashing specification
MaxChunk == 3

\* bits of the digest (md5 has 128)
DigestBits == 8
DigestMod == 2 ^ DigestBits

Names == {97, 98}
SEP == 47
root_a == <<65>>
root_b == <<66>>
Bytes == {0, 1}

----------------------------------------------------------------------------
(* Python values *)

None == <<"None">>
Str(s) == <<"str", s>>

\* s < t for two str, by code point
RECURSIVE StrLess(_, _)
StrLess(s, t) ==
    IF t = <<>> THEN FALSE
    ELSE IF s = <<>> THEN TRUE
    ELSE IF Head(s) # Head(t) THEN Head(s) < Head(t)
    ELSE StrLess(Tail(s), Tail(t))

Min(S) == CHOOSE x \in S : \A y \in S : x = y \/ StrLess(x, y)

Max(S) == CHOOSE x \in S : \A y \in S : x = y \/ StrLess(y, x)

\* the greatest first
RECURSIVE sorted_reverse(_)
sorted_reverse(S) ==
    IF S = {} THEN <<>>
    ELSE LET m == Max(S) IN <<m>> \o sorted_reverse(S \ {m})

\* sorted(S) of a set of str
RECURSIVE sorted(_)
sorted(S) ==
    IF S = {} THEN <<>>
    ELSE LET m == Min(S) IN <<m>> \o sorted(S \ {m})

Range(q) == {q[i] : i \in 1..Len(q)}


----------------------------------------------------------------------------
(* The file system *)

File(c) == [kind |-> "file", content |-> c, target |-> <<>>]
Dir == [kind |-> "dir", content |-> <<>>, target |-> <<>>]
Symlink(t) == [kind |-> "symlink", content |-> <<>>, target |-> t]
Other == [kind |-> "other", content |-> <<>>, target |-> <<>>]

\* the contents of the files of the main specification
MainContents == {<<0>>, <<1>>}

\* where a symbolic link of a tree may point, relative to the tree's root:
\* the root itself (an ancestor of every entry) or the entry named 97, which
\* may be a file, a directory, missing, or the link itself
LinkTargets == {<<>>, <<97>>}

NodesOf(contents) ==
    {File(c) : c \in contents} \cup {Dir, Other}
        \cup {Symlink(t) : t \in LinkTargets}

\* the trees of at most n entries: relative path -> node, every entry's
\* parent the root or a directory of the tree
RECURSIVE Trees(_, _)
Trees(n, contents) ==
    IF n = 0 THEN {<<>>}
    ELSE LET smaller == Trees(n - 1, contents)
             parents(t) == {<<>>} \cup {p \in DOMAIN t : t[p].kind = "dir"}
             slots(t) == {p \o <<m>> : p \in {q \in parents(t) : Len(q) < MaxDepth},
                                      m \in Names} \ DOMAIN t
         IN smaller \cup UNION {
                {[q \in DOMAIN t \cup {p} |-> IF q = p THEN nd ELSE t[q]] :
                     p \in slots(t), nd \in NodesOf(contents)} : t \in smaller}

\* the file system holding tree ta under root_a and tree tb under root_b
Mount(ta, tb) ==
    LET under(root, t) ==
            [p \in {root \o q : q \in DOMAIN t} |->
                LET nd == t[SubSeq(p, Len(root) + 1, Len(p))]
                IN IF nd.kind = "symlink"
                   THEN Symlink(root \o nd.target) ELSE nd]
        a == under(root_a, ta)
        b == under(root_b, tb)
    IN [p \in {root_a, root_b} \cup DOMAIN a \cup DOMAIN b |->
           IF p \in DOMAIN a THEN a[p]
           ELSE IF p \in DOMAIN b THEN b[p] ELSE Dir]

Kind(f, p) ==
    IF p = <<>> THEN "dir" ELSE IF p \in DOMAIN f THEN f[p].kind ELSE "none"

Err == <<-1>>

\* the kernel's path resolution: the real path that `rest`, taken from the
\* real directory `cur`, names, following every symbolic link on the way;
\* Err when a component is missing or not a directory, or after SymloopMax links
RECURSIVE Resolve(_, _, _, _)
Resolve(f, cur, rest, links) ==
    IF rest = <<>> THEN cur
    ELSE LET p == cur \o <<Head(rest)>>
             k == Kind(f, p)
         IN IF k = "none" THEN Err
            ELSE IF k = "symlink"
                 THEN IF links >= SymloopMax THEN Err
                      ELSE Resolve(f, <<>>, f[p].target \o Tail(rest), links + 1)
            ELSE IF k = "dir" THEN Resolve(f, p, Tail(rest), links)
            ELSE IF Tail(rest) = <<>> THEN p ELSE Err

\* a link is skipped only when it is not a link to a directory
is_symlink_unless_dir(f, path) ==
    LET parent == Resolve(f, <<>>, SubSeq(path, 1, Len(path) - 1), 0)
        r == Resolve(f, <<>>, path, 0)
    IN /\ parent # Err /\ Kind(f, parent \o <<path[Len(path)]>>) = "symlink"
       /\ ~(r # Err /\ Kind(f, r) = "dir")

\* no entry is taken for a symbolic link
is_symlink_never(f, path) == FALSE

\* Path.is_symlink: lstat, which follows the links of the parent only
is_symlink(f, path) ==
    LET parent == Resolve(f, <<>>, SubSeq(path, 1, Len(path) - 1), 0)
    IN parent # Err /\ Kind(f, parent \o <<path[Len(path)]>>) = "symlink"

\* whatever is not a directory is taken for a file
is_file_not_dir(f, path) ==
    LET r == Resolve(f, <<>>, path, 0) IN r # Err /\ Kind(f, r) # "dir"

\* Path.is_file and Path.is_dir: stat, which follows links; False on error
is_file(f, path) ==
    LET r == Resolve(f, <<>>, path, 0) IN r # Err /\ Kind(f, r) = "file"

is_dir(f, path) ==
    LET r == Resolve(f, <<>>, path, 0) IN r # Err /\ Kind(f, r) = "dir"

\* Path.iterdir: the names in the directory, as a set (the order the file
\* system yields them in is chosen at each step of the walk)
iterdir(f, path) ==
    LET r == Resolve(f, <<>>, path, 0)
    IN {m \in Names : r \o <<m>> \in DOMAIN f}


----------------------------------------------------------------------------
(* pathlib and dict *)

roots == <<root_a, root_b>>

IsPrefix(r, q) == Len(r) <= Len(q) /\ SubSeq(q, 1, Len(r)) = r

\* PurePath.relative_to: the part of path below root; Err for the ValueError
\* raised when path is not under root
relative_to(path, root) ==
    IF IsPrefix(root, path) THEN SubSeq(path, Len(root) + 1, Len(path)) ELSE Err

\* str of a relative path: its names joined by "/" ("." when there is none)
RECURSIVE str(_)
str(rel) ==
    IF rel = <<>> THEN <<46>>
    ELSE IF Len(rel) = 1 THEN rel
    ELSE <<Head(rel), SEP>> \o str(Tail(rel))

\* a dict is the sequence of its <<key, value>> items in insertion order
DictKeys(d) == {d[i][1] : i \in 1..Len(d)}

DictGet(d, k) == d[CHOOSE i \in 1..Len(d) : d[i][1] = k][2]

DictSet(d, k, v) ==
    IF k \in DictKeys(d)
    THEN [i \in 1..Len(d) |-> IF d[i][1] = k THEN <<k, v>> ELSE d[i]]
    ELSE Append(d, <<k, v>>)

----------------------------------------------------------------------------
(* calc_md5 *)

md5 == 0

\* hash.update(chunk): the bytes of the chunk folded into the state in order
RECURSIVE update(_, _)
update(h, chunk) ==
    IF chunk = <<>> THEN h
    ELSE update((h * (Cardinality(Bytes) + 1) + Head(chunk) + 1) % DigestMod,
                Tail(chunk))

HexChar(d) == IF d < 10 THEN 48 + d ELSE 87 + d

\* the n lowest hexadecimal digits of h, the highest first
RECURSIVE HexDigits(_, _)
HexDigits(h, n) ==
    IF n = 0 THEN <<>> ELSE Append(HexDigits(h \div 16, n - 1), HexChar(h % 16))

\* hash.hexdigest(): the state as lower-case hexadecimal digits
hexdigest(h) == Str(HexDigits(h, (DigestBits + 3) \div 4))

\* only the first read returns anything: the file is read once, not in a loop
read_first_only(content, pos, n) ==
    IF pos = 0 THEN SubSeq(content, 1, IF n < Len(content) THEN n ELSE Len(content))
    ELSE <<>>

\* f.read(n) at offset pos: the next n bytes, fewer at the end of the file
read(content, pos, n) ==
    SubSeq(content, pos + 1, IF pos + n < Len(content) THEN pos + n ELSE Len(content))

Closed == [open |-> FALSE, path |-> <<>>, pos |-> 0, hash |-> 0]

\* the bytes of the file `path` names
ContentOf(f, path) == f[Resolve(f, <<>>, path, 0)].content


----------------------------------------------------------------------------
(* differ *)

\* the two digests exchanged
ChangeRecord_swapped(type, v) ==
    [Change_type |-> type, First_hash |-> v[2], Second_hash |-> v[1]]

ChangeRecord(type, v) ==
    [Change_type |-> type, First_hash |-> v[1], Second_hash |-> v[2]]

\* the labels of the first two branches exchanged
ChangeType_swapped(v) ==
    IF v[1] = None THEN "Removed"
    ELSE IF v[2] = None THEN "Added"
    ELSE IF v[1] # v[2] THEN "Modified"
    ELSE ""

\* the if / elif / elif of differ's loop body: the change type of the item
\* whose value is v, "" when no branch is taken
ChangeType(v) ==
    IF v[1] = None THEN "Added"
    ELSE IF v[2] = None THEN "Removed"
    ELSE IF v[1] # v[2] THEN "Modified"
    ELSE ""

\* differ's loop from item i on, over the dict d, with `changes` so far
RECURSIVE differ_loop(_, _, _)
differ_loop(d, i, changes) ==
    IF i > Len(d) THEN changes
    ELSE LET entry == d[i][1]
             type == ChangeType(d[i][2])
         IN differ_loop(d, i + 1,
                IF type = "" THEN changes
                ELSE DictSet(changes, entry, ChangeRecord(type, d[i][2])))

\* pprint of a dict: its items in the order of sorted(keys)
pprint(d) ==
    LET keys == sorted(DictKeys(d))
    IN [i \in 1..Len(keys) |-> <<keys[i], DictGet(d, keys[i])>>]

----------------------------------------------------------------------------
(* main *)

WalkPc == <<"walk_a", "walk_b">>
HashPc == <<"hash_a", "hash_b">>

Walking == pc \in Range(WalkPc)
Hashing == pc \in Range(HashPc)

\* which tree (1 or 2) the walk or the hash loop is on
Side == IF pc \in {"walk_a", "hash_a"} THEN 1 ELSE 2

Frame(path) == [dir |-> path, pending |-> iterdir(fs, path), file_list |-> <<>>]

Fresh ==
    /\ stack = <<>>
    /\ dir_files = <<<<>>, <<>>>>
    /\ file_hashes = <<>>
    /\ idx = 0
    /\ hfile = Closed
    /\ stdout = <<>>
    /\ walked = <<>>
    /\ hashed = <<>>
    /\ fed = <<>>

\* the error is caught and what there is of the change set is printed
Raise_then_print ==
    /\ pc' = "done"
    /\ stdout' = Append(stdout, pprint(differ_loop(file_hashes, 1, <<>>)))
    /\ UNCHANGED <<fs, chunk_size, stack, dir_files, file_hashes, idx, hfile,
                   second_run, prev_stdout, prev_dir_files, walked, hashed, fed>>

\* an exception nothing catches: the run ends, nothing more is printed
Raise ==
    /\ pc' = "aborted"
    /\ stack' = <<>>
    /\ dir_files' = <<<<>>, <<>>>>
    /\ file_hashes' = <<>>
    /\ idx' = 0
    /\ hfile' = Closed
    /\ UNCHANGED <<fs, chunk_size, stdout, second_run, prev_stdout, prev_dir_files,
                   walked, hashed, fed>>

\* main calls walk(root_a), then walk(root_b); iterdir lists the root or fails
walk_call ==
    /\ Walking
    /\ stack = <<>>
    /\ \E ok \in BOOLEAN :
        IF ok
        THEN /\ stack' = <<Frame(roots[Side])>>
             /\ walked' = Append(walked, Resolve(fs, <<>>, roots[Side], 0))
             /\ UNCHANGED <<fs, chunk_size, pc, dir_files, file_hashes, idx, hfile,
                            stdout, second_run, prev_stdout, prev_dir_files, hashed, fed>>
        ELSE Raise

\* one turn of walk's for loop, on any element the directory has yet to yield
walk_element ==
    /\ Walking
    /\ stack # <<>>
    /\ LET n == Len(stack)
           top == stack[n]
       IN \E m \in top.pending :
            LET element == top.dir \o <<m>>
                rest == top.pending \ {m}
            IN IF is_symlink(fs, element)
               THEN /\ stack' = [stack EXCEPT ![n].pending = rest]
                    /\ UNCHANGED <<fs, chunk_size, pc, dir_files, file_hashes, idx,
                                   hfile, stdout, second_run, prev_stdout, prev_dir_files, walked,
                                   hashed, fed>>
               ELSE LET file_list == IF is_file(fs, element)
                                     THEN Append(top.file_list, element)
                                     ELSE top.file_list
                        here == [stack EXCEPT ![n].pending = rest,
                                              ![n].file_list = file_list]
                    IN IF is_dir(fs, element)
                       THEN \E ok \in BOOLEAN :
                              IF ok
                              THEN /\ stack' = Append(here, Frame(element))
                                   /\ walked' = Append(walked,
                                                       Resolve(fs, <<>>, element, 0))
                                   /\ UNCHANGED <<fs, chunk_size, pc, dir_files,
                                                  file_hashes, idx, hfile, stdout,
                                                  second_run, prev_stdout, prev_dir_files, hashed, fed>>
                              ELSE Raise
                       ELSE /\ stack' = here
                            /\ UNCHANGED <<fs, chunk_size, pc, dir_files, file_hashes,
                                           idx, hfile, stdout, second_run, prev_stdout, prev_dir_files,
                                           walked, hashed, fed>>

\* walk returns file_list: to the walk that called it, which extends its own
\* list, or to main, which goes on
walk_return ==
    /\ Walking
    /\ stack # <<>>
    /\ LET n == Len(stack)
           top == stack[n]
       IN /\ top.pending = {}
          /\ IF n > 1
             THEN /\ stack' = [SubSeq(stack, 1, n - 1) EXCEPT
                                  ![n - 1].file_list = @ \o top.file_list]
                  /\ UNCHANGED <<pc, dir_files, idx>>
             ELSE /\ stack' = <<>>
                  /\ dir_files' = [dir_files EXCEPT ![Side] = top.file_list]
                  /\ pc' = IF pc = "walk_a" THEN "walk_b" ELSE "get_file_hashes"
                  /\ UNCHANGED idx
    /\ UNCHANGED <<fs, chunk_size, file_hashes, hfile, stdout, second_run,
                   prev_stdout, prev_dir_files, walked, hashed, fed>>

\* str(file.relative_to(root)) of each file of the list
file_names_of(file_paths, root) ==
    [i \in 1..Len(file_paths) |-> str(relative_to(file_paths[i], root))]

\* the names of the first list alone
new_file_hashes_a_only(file_paths_a, file_paths_b) ==
    LET file_names == sorted(Range(file_names_of(file_paths_a, roots[1])))
    IN [i \in 1..Len(file_names) |-> <<file_names[i], <<None, None>>>>]

\* the dict get_file_hashes starts from: a [None, None] for each name of the
\* sorted union
new_file_hashes(file_paths_a, file_paths_b) ==
    LET dir_a_file_names == file_names_of(file_paths_a, roots[1])
        dir_b_file_names == file_names_of(file_paths_b, roots[2])
        file_names == sorted(Range(dir_a_file_names) \cup Range(dir_b_file_names))
    IN [i \in 1..Len(file_names) |-> <<file_names[i], <<None, None>>>>]

\* get_file_hashes up to its first loop
get_file_hashes ==
    /\ pc = "get_file_hashes"
    /\ IF \E t \in 1..2 : \E i \in 1..Len(dir_files[t]) :
            relative_to(dir_files[t][i], roots[t]) = Err
       THEN Raise
       ELSE /\ file_hashes' = new_file_hashes(dir_files[1], dir_files[2])
            /\ idx' = 1
            /\ pc' = "hash_a"
            /\ UNCHANGED <<fs, chunk_size, stack, dir_files, hfile, stdout,
                           second_run, prev_stdout, prev_dir_files, walked, hashed, fed>>

\* calc_md5 opens the next file of the loop, or fails to
calc_md5_open ==
    /\ Hashing
    /\ ~hfile.open
    /\ idx <= Len(dir_files[Side])
    /\ \E ok \in BOOLEAN :
        IF ok
        THEN /\ hfile' = [open |-> TRUE, path |-> dir_files[Side][idx],
                          pos |-> 0, hash |-> md5]
             /\ fed' = <<>>
             /\ UNCHANGED <<fs, chunk_size, pc, stack, dir_files, file_hashes, idx,
                            stdout, second_run, prev_stdout, prev_dir_files, walked, hashed>>
        ELSE Raise

\* every value is one and the same list: the slot is set under every key
set_slot_shared(d, key, t, checksum) ==
    [i \in 1..Len(d) |-> <<d[i][1], [d[i][2] EXCEPT ![t] = checksum]>>]

\* the value's slot for tree t set to checksum
set_slot(d, key, t, checksum) ==
    DictSet(d, key, [DictGet(d, key) EXCEPT ![t] = checksum])

\* one f.read of calc_md5's loop: a chunk, which is fed to the hash, or the
\* empty read that ends the loop, after which the digest is stored
calc_md5_read ==
    /\ Hashing
    /\ hfile.open
    /\ \E ok \in BOOLEAN :
        IF ~ok THEN Raise
        ELSE LET chunk == read(ContentOf(fs, hfile.path), hfile.pos, chunk_size)
                 key == str(relative_to(hfile.path, roots[Side]))
             IN IF chunk # <<>>
                THEN /\ hfile' = [hfile EXCEPT !.hash = update(@, chunk),
                                               !.pos = @ + Len(chunk)]
                     /\ fed' = Append(fed, chunk)
                     /\ UNCHANGED <<fs, chunk_size, pc, stack, dir_files, file_hashes,
                                    idx, stdout, second_run, prev_stdout, prev_dir_files, walked, hashed>>
                ELSE IF key \notin DictKeys(file_hashes) THEN Raise
                ELSE /\ file_hashes' = set_slot(file_hashes, key, Side,
                                                hexdigest(hfile.hash))
                     /\ hfile' = Closed
                     /\ idx' = idx + 1
                     /\ hashed' = Append(hashed, hfile.path)
                     /\ UNCHANGED <<fs, chunk_size, pc, stack, dir_files, stdout,
                                    second_run, prev_stdout, prev_dir_files, walked, fed>>

\* the end of a for loop of get_file_hashes; after the second, it returns
get_file_hashes_loop_end ==
    /\ Hashing
    /\ ~hfile.open
    /\ idx > Len(dir_files[Side])
    /\ pc' = IF pc = "hash_a" THEN "hash_b" ELSE "differ"
    /\ idx' = 1
    /\ UNCHANGED <<fs, chunk_size, stack, dir_files, file_hashes, hfile, stdout,
                   second_run, prev_stdout, prev_dir_files, walked, hashed, fed>>

\* differ: the changes, pretty-printed
differ ==
    /\ pc = "differ"
    /\ stdout' = Append(stdout, pprint(differ_loop(file_hashes, 1, <<>>)))
    /\ pc' = "done"
    /\ UNCHANGED <<fs, chunk_size, stack, dir_files, file_hashes, idx, hfile,
                   second_run, prev_stdout, prev_dir_files, walked, hashed, fed>>

\* the program is run again on the same, unmodified trees
main_again ==
    /\ pc = "done"
    /\ ~second_run
    /\ second_run' = TRUE
    /\ prev_stdout' = stdout
    /\ prev_dir_files' = dir_files
    /\ pc' = "walk_a"
    /\ stack' = <<>>
    /\ dir_files' = <<<<>>, <<>>>>
    /\ file_hashes' = <<>>
    /\ idx' = 0
    /\ hfile' = Closed
    /\ stdout' = <<>>
    /\ walked' = <<>>
    /\ hashed' = <<>>
    /\ fed' = <<>>
    /\ UNCHANGED <<fs, chunk_size>>

main_entry ==
    /\ pc = "walk_a"
    /\ second_run = FALSE
    /\ prev_stdout = <<>>
    /\ prev_dir_files = <<<<>>, <<>>>>
    /\ Fresh

EmptyTree == <<>>

\* two trees of at most MaxEntries entries together
Init ==
    /\ \E na \in 0..MaxEntries :
         \E ta \in Trees(na, MainContents) :
           \E tb \in Trees(MaxEntries - na, MainContents) :
             /\ Cardinality(DOMAIN ta) = na
             /\ fs = Mount(ta, tb)
    /\ chunk_size = MaxChunk
    /\ main_entry

Next ==
    \/ walk_call
    \/ walk_element
    \/ walk_return
    \/ get_file_hashes
    \/ calc_md5_open
    \/ calc_md5_read
    \/ get_file_hashes_loop_end
    \/ differ
    \/ main_again

Spec == Init /\ [][Next]_vars

\* the walker's specification: the two walks of main, over one tree of at most
\* MaxEntries entries and an empty one; a step that can be taken is taken in
\* the end
InitWalk ==
    /\ \E ta \in Trees(MaxEntries, MainContents) : fs = Mount(ta, EmptyTree)
    /\ chunk_size = MaxChunk
    /\ main_entry

NextWalk ==
    \/ walk_call
    \/ walk_element
    \/ walk_return

SpecWalk == InitWalk /\ [][NextWalk]_vars /\ WF_vars(NextWalk)

\* the byte strings of at most n bytes
Contents(n) == UNION {[1..k -> Bytes] : k \in 0..n}

\* the hasher's specification: one file of any content of at most MaxLen
\* bytes, in tree A alone or in both trees, read in chunks of any size up to
\* MaxChunk
InitHash ==
    /\ \E c \in Contents(MaxLen) :
         LET ta == [p \in {<<97>>} |-> File(c)]
         IN \E tb \in {EmptyTree, ta} : fs = Mount(ta, tb)
    /\ chunk_size \in 1..MaxChunk
    /\ main_entry

SpecHash == InitHash /\ [][Next]_vars /\ WF_vars(Next)


----------------------------------------------------------------------------
(* Terms of the properties *)

\* the entries of tree t
Entries(t) == {p \in DOMAIN fs : IsPrefix(roots[t], p) /\ p # roots[t]}

\* the regular files of tree t reachable from its root through directories
\* that are not symbolic links
RegularFiles(t) ==
    {p \in Entries(t) :
        /\ fs[p].kind = "file"
        /\ \A i \in (Len(roots[t]) + 1)..(Len(p) - 1) : fs[SubSeq(p, 1, i)].kind = "dir"}

\* the relative path string of entry p of tree t
RelName(t, p) == str(SubSeq(p, Len(roots[t]) + 1, Len(p)))

\* the digest of a whole content
DigestOf(c) == hexdigest(update(md5, c))

\* the file of tree t whose relative path string is k
FileNamed(t, k) == CHOOSE p \in RegularFiles(t) : RelName(t, p) = k

HasFile(t, k) == \E p \in RegularFiles(t) : RelName(t, p) = k

\* the change set printed by this run
Printed == stdout[1]

PrintedKeys == {Printed[i][1] : i \in 1..Len(Printed)}

PrintedTypeOf(k) == DictGet(Printed, k).Change_type

NoDuplicates(q) == \A i, j \in 1..Len(q) : q[i] = q[j] => i = j

RECURSIVE Concat(_)
Concat(chunks) ==
    IF chunks = <<>> THEN <<>> ELSE Head(chunks) \o Concat(Tail(chunks))

----------------------------------------------------------------------------
(* C1: for every merged record path -> [digestA, digestB] that differ is   *)
(* given, the printed change set holds the path as Added iff digestA is    *)
(* absent and digestB present, as Removed iff digestA is present and       *)
(* digestB absent, as Modified iff both are present and differ, and does   *)
(* not hold it iff both are present and equal; each printed record carries *)
(* the two digests of its merged record unchanged.                         *)
DifferClassifies ==
    pc = "done" =>
        /\ PrintedKeys \subseteq DictKeys(file_hashes)
        /\ \A i \in 1..Len(file_hashes) :
             LET k == file_hashes[i][1]
                 digestA == file_hashes[i][2][1]
                 digestB == file_hashes[i][2][2]
                 is(type) == k \in PrintedKeys /\ PrintedTypeOf(k) = type
             IN /\ is("Added") <=> (digestA = None /\ digestB # None)
                /\ is("Removed") <=> (digestA # None /\ digestB = None)
                /\ is("Modified") <=>
                       (digestA # None /\ digestB # None /\ digestA # digestB)
                /\ k \notin PrintedKeys <=>
                       (digestA # None /\ digestB # None /\ digestA = digestB)
                /\ k \in PrintedKeys =>
                       /\ DictGet(Printed, k).First_hash = digestA
                       /\ DictGet(Printed, k).Second_hash = digestB

DifferClassifiesWitness ==
    /\ pc = "done"
    /\ \E k \in PrintedKeys : PrintedTypeOf(k) = "Modified"
    /\ \E k \in PrintedKeys : PrintedTypeOf(k) = "Added"


----------------------------------------------------------------------------
WalkedNames(t) ==
    {str(relative_to(dir_files[t][i], roots[t])) : i \in 1..Len(dir_files[t])}

(* C2: the keys of the merged mapping get_file_hashes builds are exactly   *)
(* the relative paths of the files walked in A together with those walked  *)
(* in B, each relative path one key; so every walked file is classified    *)
(* once (one printed record at most for its path) and no key belongs to    *)
(* neither tree.                                                           *)
UnionCompleteness ==
    pc \in {"hash_a", "hash_b", "differ", "done"} =>
        /\ DictKeys(file_hashes) = WalkedNames(1) \cup WalkedNames(2)
        /\ Len(file_hashes) = Cardinality(DictKeys(file_hashes))
        /\ pc = "done" =>
             /\ PrintedKeys \subseteq WalkedNames(1) \cup WalkedNames(2)
             /\ Len(Printed) = Cardinality(PrintedKeys)

UnionCompletenessWitness ==
    /\ pc = "done"
    /\ WalkedNames(1) \cap WalkedNames(2) # {}
    /\ WalkedNames(2) \ WalkedNames(1) # {}
    /\ Len(file_hashes) = 2

----------------------------------------------------------------------------
OnlyIn(t, p) ==
    \A q \in Entries(3 - t) : RelName(3 - t, q) # RelName(t, p)

(* C3: in a complete run a regular file whose relative path is in tree A   *)
(* only is printed as Removed with its digest first and no second digest,  *)
(* one whose relative path is in tree B only as Added with no first digest *)
(* and its digest second, and no path is printed twice; so the same        *)
(* content at two different paths gives one Removed and one Added record.  *)
SymmetryOfAbsence ==
    pc = "done" =>
        /\ \A p \in RegularFiles(1) : OnlyIn(1, p) =>
             /\ RelName(1, p) \in PrintedKeys
             /\ DictGet(Printed, RelName(1, p)) =
                    [Change_type |-> "Removed",
                     First_hash |-> DigestOf(fs[p].content),
                     Second_hash |-> None]
        /\ \A p \in RegularFiles(2) : OnlyIn(2, p) =>
             /\ RelName(2, p) \in PrintedKeys
             /\ DictGet(Printed, RelName(2, p)) =
                    [Change_type |-> "Added",
                     First_hash |-> None,
                     Second_hash |-> DigestOf(fs[p].content)]
        /\ \A i, j \in 1..Len(Printed) : Printed[i][1] = Printed[j][1] => i = j

\* the same content at one path of A and at another path of B
SymmetryOfAbsenceWitness ==
    /\ pc = "done"
    /\ \E p \in RegularFiles(1) : \E q \in RegularFiles(2) :
         /\ OnlyIn(1, p)
         /\ OnlyIn(2, q)
         /\ fs[p].content = fs[q].content
         /\ PrintedTypeOf(RelName(1, p)) = "Removed"
         /\ PrintedTypeOf(RelName(2, q)) = "Added"

----------------------------------------------------------------------------
ThroughSymlink(q) ==
    \E i \in 2..Len(q) : Kind(fs, SubSeq(q, 1, i)) = "symlink"

Symlinks(t) == {p \in Entries(t) : fs[p].kind = "symlink"}

(* C4: a directory entry that is a symbolic link, at any depth and         *)
(* whatever it points to, is never put in walk's result and never          *)
(* descended into: no path walk holds, returns or hands on to be hashed    *)
(* has a symbolic link among its components, and a link contributes no     *)
(* digest to the merged mapping and none to the printed records.           *)
SymlinkExclusion ==
    /\ \A i \in 1..Len(stack) :
         /\ ~ThroughSymlink(stack[i].dir)
         /\ \A j \in 1..Len(stack[i].file_list) :
              ~ThroughSymlink(stack[i].file_list[j])
    /\ \A t \in 1..2 : \A j \in 1..Len(dir_files[t]) :
         ~ThroughSymlink(dir_files[t][j])
    /\ \A j \in 1..Len(hashed) : ~ThroughSymlink(hashed[j])
    /\ hfile.open => ~ThroughSymlink(hfile.path)
    /\ \A t \in 1..2 : \A p \in Symlinks(t) :
         /\ RelName(t, p) \in DictKeys(file_hashes) =>
                DictGet(file_hashes, RelName(t, p))[t] = None
         /\ (pc = "done" /\ RelName(t, p) \in PrintedKeys) =>
                IF t = 1
                THEN DictGet(Printed, RelName(t, p)).First_hash = None
                ELSE DictGet(Printed, RelName(t, p)).Second_hash = None

\* a run to the end over trees with a link to a file and a link to a directory
SymlinkExclusionWitness ==
    /\ pc = "done"
    /\ \E p, q \in Symlinks(1) \cup Symlinks(2) :
         /\ is_file(fs, p)
         /\ is_dir(fs, q)


----------------------------------------------------------------------------
(* C5: a run in which a walk or a hash fails ends with the error and has   *)
(* printed nothing; the change set is printed only once both walks have    *)
(* returned and every file of both lists has been hashed; after a failure  *)
(* nothing is tried again.                                                 *)
AllOrNothing ==
    /\ [](pc = "aborted" => stdout = <<>>)
    /\ [](stdout # <<>> =>
            /\ pc = "done"
            /\ stack = <<>>
            /\ ~hfile.open
            /\ hashed = dir_files[1] \o dir_files[2]
            /\ Range(hashed) = RegularFiles(1) \cup RegularFiles(2))
    /\ [][pc = "aborted" => UNCHANGED vars]_vars

\* a failure after a file of tree A has been hashed already
AllOrNothingWitness ==
    /\ pc = "aborted"
    /\ hashed # <<>>
    /\ RegularFiles(2) # {}
    /\ stdout = <<>>

----------------------------------------------------------------------------
(* C6: two complete runs over the same unmodified trees print the same     *)
(* records in the same order, whatever order the directories yield their   *)
(* entries in in each run; the records are in lexicographic order of the   *)
(* relative path string.                                                   *)
DeterministicReport ==
    pc = "done" =>
        /\ \A i \in 1..(Len(Printed) - 1) : StrLess(Printed[i][1], Printed[i + 1][1])
        /\ second_run => stdout = prev_stdout

\* the walks of the two runs returned their files in different orders
DeterministicReportWitness ==
    /\ pc = "done"
    /\ second_run
    /\ dir_files[2] # prev_dir_files[2]
    /\ Len(Printed) >= 2

----------------------------------------------------------------------------
Count(q, x) == Cardinality({i \in 1..Len(q) : q[i] = x})

(* C8: when get_file_hashes has returned, every file of tree A and of tree *)
(* B has been hashed exactly once, and for every key slot 0 holds a digest *)
(* iff the key is the relative path of a file of A, the digest of that     *)
(* file, and slot 1 likewise for B; so no key has both slots absent.       *)
MergedRecordInvariant ==
    pc \in {"differ", "done"} =>
        /\ \A t \in 1..2 : \A p \in RegularFiles(t) : Count(hashed, p) = 1
        /\ Range(hashed) \subseteq RegularFiles(1) \cup RegularFiles(2)
        /\ \A i \in 1..Len(file_hashes) :
             LET k == file_hashes[i][1]
                 v == file_hashes[i][2]
             IN /\ \A t \in 1..2 :
                     /\ v[t] # None <=> HasFile(t, k)
                     /\ HasFile(t, k) => v[t] = DigestOf(fs[FileNamed(t, k)].content)
                /\ v[1] # None \/ v[2] # None

\* a key of A alone and a key of B alone
MergedRecordInvariantWitness ==
    /\ pc = "differ"
    /\ \E i, j \in 1..Len(file_hashes) :
         /\ file_hashes[i][2][2] = None
         /\ file_hashes[j][2][1] = None

----------------------------------------------------------------------------
Returned(t) == IF t = 1 THEN pc # "walk_a" ELSE pc \notin {"walk_a", "walk_b"}

(* C9: walk(root) returns exactly the regular files reachable from root    *)
(* through directories that are not symbolic links, each once; entries of  *)
(* other types are not returned; every returned path is under root.        *)
WalkerResult ==
    \A t \in 1..2 : (Returned(t) /\ pc # "aborted") =>
        /\ Range(dir_files[t]) = RegularFiles(t)
        /\ NoDuplicates(dir_files[t])
        /\ \A j \in 1..Len(dir_files[t]) :
             /\ relative_to(dir_files[t][j], roots[t]) # Err
             /\ Kind(fs, dir_files[t][j]) = "file"

\* a tree with a device or socket beside a directory that holds a file
WalkerResultWitness ==
    /\ pc = "walk_b"
    /\ \E p \in Entries(1) : fs[p].kind = "other"
    /\ \E p \in RegularFiles(1) : Len(p) = Len(root_a) + 2


----------------------------------------------------------------------------
(* C7: on every finite tree, with symbolic links that point to an ancestor *)
(* or to themselves, walk ends; it is called on each real directory at     *)
(* most once.                                                              *)
WalkerTerminates ==
    /\ [](NoDuplicates(walked))
    /\ (pc = "walk_a") ~> (pc # "walk_a")
    /\ (pc = "walk_b") ~> (pc # "walk_b")

\* walk has returned from a tree with a link, inside a directory, to the root
\* and a link to itself
WalkerTerminatesWitness ==
    /\ pc = "walk_b"
    /\ \E p \in Symlinks(1) : fs[p].target = root_a /\ Len(p) = Len(root_a) + 2
    /\ \E p \in Symlinks(1) : fs[p].target = p
    /\ Len(walked) = 2

----------------------------------------------------------------------------
(* C10: calc_md5 feeds the hash the chunks it reads, in order, up to the   *)
(* first empty read; the chunks fed, put end to end, are the content of    *)
(* the file; the loop ends; so the digest is that of the whole content,    *)
(* whatever the chunk size, and the same content gives the same digest.    *)
HasherStreams ==
    /\ [](hfile.open =>
            /\ Concat(fed) = SubSeq(ContentOf(fs, hfile.path), 1, hfile.pos)
            /\ hfile.hash = update(md5, Concat(fed)))
    /\ [](\A i \in 1..Len(fed) : fed[i] # <<>> /\ Len(fed[i]) <= chunk_size)
    /\ []((~hfile.open /\ hashed # <<>> /\ pc # "aborted") =>
            LET file == hashed[Len(hashed)]
                t == IF IsPrefix(root_a, file) THEN 1 ELSE 2
            IN /\ Concat(fed) = fs[file].content
               /\ DictGet(file_hashes, RelName(t, file))[t] = DigestOf(fs[file].content))
    /\ [](pc = "differ" =>
            \A i \in 1..Len(file_hashes) :
                (HasFile(1, file_hashes[i][1]) /\ HasFile(2, file_hashes[i][1])) =>
                    file_hashes[i][2][1] = file_hashes[i][2][2])
    /\ hfile.open ~> ~hfile.open

\* a content that is not a whole number of chunks, read in several chunks
HasherStreamsWitness ==
    /\ ~hfile.open
    /\ pc = "hash_a"
    /\ hashed # <<>>
    /\ Len(fed) >= 2
    /\ Len(fed[Len(fed)]) < chunk_size

====
